---- MODULE Spec2Model ----
(***************************************************************************)
(* rsnova: the crypto context of the mux protocol (src/mux/crypto.rs) and  *)
(* the client handshake (src/channel/rmux.rs).                              *)
(*                                                                         *)
(* Representation.  A byte is a number 0..255.  A u32 is a 4-tuple of      *)
(* bytes and a u64 an 8-tuple of bytes, most significant byte first, so    *)
(* that the full width of the Rust integers is kept (TLC's own integers    *)
(* are 32-bit signed).  A BytesMut / Vec<u8> / String is a sequence of     *)
(* bytes.                                                                  *)
(***************************************************************************)
EXTENDS Integers, Sequences, FiniteSets, TLC

(***************************************************************************)
(* Bounds of the model.                                                    *)
(***************************************************************************)
\* longest event body the writer side is given
MaxBody == 2
\* longest key string a context is created with
MaxKeyLen == 34
\* number of events one context encrypts into one buffer
MaxEvents == 2
\* number of events the session driver writes / reads after the handshake
MaxSessionEvents == 2

(***************************************************************************)
(* Bytes, words, buffers.                                                  *)
(***************************************************************************)
Byte == 0..255

Reverse(s) == [i \in 1..Len(s) |-> s[Len(s) + 1 - i]]

Take(s, n) == SubSeq(s, 1, n)

\* BytesMut::advance(n)
Drop(s, n) == SubSeq(s, n + 1, Len(s))

RECURSIVE Pow2(_)
Pow2(j) == IF j = 0 THEN 1 ELSE 2 * Pow2(j - 1)

\* the byte b with bit j (0 = least significant) inverted
FlipBit(b, j) == IF (b \div Pow2(j)) % 2 = 1 THEN b - Pow2(j) ELSE b + Pow2(j)

\* the u32 of a number below 2^31
U32(n) == << (n \div 16777216) % 256, (n \div 65536) % 256, (n \div 256) % 256, n % 256 >>

\* the u64 of a number below 2^31
U64(n) == << 0, 0, 0, 0 >> \o U32(n)

\* u64::MAX
U64Max == [i \in 1..8 |-> 255]

\* u32::to_le_bytes / u64::to_le_bytes / BufMut::put_u32_le
to_le_bytes(w) == Reverse(w)

\* the bytes read most significant first (u32::from_be_bytes)
from_be_bytes(b) == b

\* u32::from_le_bytes
from_le_bytes(b) == Reverse(b)

RECURSIVE Carry(_, _)
Carry(w, i) ==
    IF i = 0 THEN w
    ELSE IF w[i] = 255 THEN Carry([w EXCEPT ![i] = 0], i - 1)
    ELSE [w EXCEPT ![i] = w[i] + 1]

\* x + 1 on a u64, modulo 2^64
AddOne(w) == Carry(w, Len(w))

(***************************************************************************)
(* Event (mux/event.rs): header { flag_len, stream_id }, body, local.      *)
(***************************************************************************)
EVENT_HEADER_LEN == 8

FLAG_SYN == 1
FLAG_FIN == 2
FLAG_DATA == 3
FLAG_WIN_UPDATE == 4
FLAG_PING == 5
FLAG_AUTH == 6
FLAG_SHUTDOWN == 7

\* Header::flags(): the high 8 bits of flag_len
flags(header) == header.flag_len[1]

\* Header::len(): the low 24 bits of flag_len
len(header) == header.flag_len[2] * 65536 + header.flag_len[3] * 256 + header.flag_len[4]

\* an event as the constructors of event.rs build it: the length field is
\* the body's length
new_event(flag, sid, body, local) ==
    [ header |-> [ flag_len |-> << flag >> \o SubSeq(U32(Len(body)), 2, 4),
                   stream_id |-> sid ],
      body |-> body,
      local |-> local ]

NoEvent == [ header |-> [ flag_len |-> U32(0), stream_id |-> U32(0) ],
             body |-> << >>, local |-> FALSE ]

(***************************************************************************)
(* The external primitives, as keyed functions on bytes.                   *)
(*                                                                         *)
(* skip32 is a keyed permutation of the 32-bit words: an unbalanced        *)
(* Feistel network over the four bytes of the word, one round per byte of  *)
(* the 10-byte key.  decode undoes encode round by round.                  *)
(***************************************************************************)
skip32_g(sk, r, x) == (x * 5 + sk[r] * 3 + r) % 256

RECURSIVE skip32_enc_rounds(_, _, _)
skip32_enc_rounds(sk, w, r) ==
    IF r > Len(sk) THEN w
    ELSE LET t == ((r - 1) % 4) + 1
             s == (r % 4) + 1
         IN  skip32_enc_rounds(sk, [w EXCEPT ![t] = (w[t] + skip32_g(sk, r, w[s])) % 256], r + 1)

RECURSIVE skip32_dec_rounds(_, _, _)
skip32_dec_rounds(sk, w, r) ==
    IF r = 0 THEN w
    ELSE LET t == ((r - 1) % 4) + 1
             s == (r % 4) + 1
         IN  skip32_dec_rounds(sk, [w EXCEPT ![t] = (w[t] + 256 - skip32_g(sk, r, w[s])) % 256], r - 1)

skip32_encode(sk, w) == skip32_enc_rounds(sk, w, 1)

skip32_decode(sk, w) == skip32_dec_rounds(sk, w, Len(sk))

(***************************************************************************)
(* chacha20poly1305 (orion): seal(key, nonce, plaintext) is the ciphertext *)
(* (plaintext combined with a key stream of key and nonce) followed by a   *)
(* 16-byte tag over key, nonce and ciphertext; open recomputes the tag     *)
(* and fails when it differs.  A change of one bit of the ciphertext       *)
(* always changes the tag (odd weights), as it does for Poly1305 up to a   *)
(* negligible probability.                                                 *)
(***************************************************************************)
RECURSIVE Mix(_, _)
Mix(s, h) == IF s = << >> THEN h ELSE Mix(Tail(s), (h * 31 + Head(s) + 1) % 256)

aead_stream(key, nonce, i) == (Mix(key, 7) + 3 * Mix(nonce, 11) + 29 * i) % 256

RECURSIVE aead_weigh(_, _)
aead_weigh(ct, i) ==
    IF i > Len(ct) THEN 0 ELSE ((2 * i + 1) * ct[i] + aead_weigh(ct, i + 1)) % 256

aead_tag(key, nonce, ct) ==
    LET m == (Mix(key, 13) + 5 * Mix(nonce, 17) + Len(ct) + aead_weigh(ct, 1)) % 256
    IN  [t \in 1..16 |-> (m + 17 * t) % 256]

\* chacha20poly1305::seal: ciphertext, then tag
aead_seal(key, nonce, pt) ==
    LET ct == [i \in 1..Len(pt) |-> (pt[i] + aead_stream(key, nonce, i)) % 256]
    IN  ct \o aead_tag(key, nonce, ct)

\* chacha20poly1305::open: [ok, pt]
aead_open(key, nonce, ct_tag) ==
    LET n  == Len(ct_tag) - 16
        ct == Take(ct_tag, n)
    IN  IF Drop(ct_tag, n) = aead_tag(key, nonce, ct)
        THEN [ ok |-> TRUE,
               pt |-> [i \in 1..n |-> (ct[i] + 256 - aead_stream(key, nonce, i)) % 256] ]
        ELSE [ ok |-> FALSE, pt |-> << >> ]

(***************************************************************************)
(* CryptoContext (crypto.rs:13-19) and the two methods.                    *)
(* A decrypt result Result<Event, (u32, &str)> is the record               *)
(* [ok, ev, n, reason, buf]: Ok(ev) or Err((n, reason)), and the buffer    *)
(* as the call leaves it.  Err with an empty reason asks for n more bytes. *)
(***************************************************************************)
METHOD_CHACHA20_POLY1305 == "chacha20poly1305"

METHOD_NONE == "none"

Methods == { METHOD_NONE, METHOD_CHACHA20_POLY1305 }

Ok(ev, buf) == [ ok |-> TRUE, ev |-> ev, n |-> 0, reason |-> "", buf |-> buf ]

Err(n, reason, buf) == [ ok |-> FALSE, ev |-> NoEvent, n |-> n, reason |-> reason, buf |-> buf ]

IsNeed(r) == ~r.ok /\ r.reason = ""

IsDecryptError(r) == ~r.ok /\ r.reason # ""

\* the 10-byte skip32 key: the first two key bytes, then the nonce, little-endian
SubKey(key, nonce) == Take(key, 2) \o to_le_bytes(nonce)

\* the 96-bit AEAD nonce: the first 12 bytes of the nonce as a little-endian u128
AeadNonce(nonce) == Take(to_le_bytes(nonce) \o << 0, 0, 0, 0, 0, 0, 0, 0 >>, 12)

none_encrypt_event(ctx, ev, out) ==
    LET hdr == to_le_bytes(ev.header.flag_len) \o to_le_bytes(ev.header.stream_id)
    IN  IF Len(ev.body) > 0 THEN out \o hdr \o ev.body ELSE out \o hdr

\* none_decrypt_event advancing past the header before the body is known to
\* be complete
none_decrypt_event_eager(ctx, buf) ==
    IF Len(buf) < EVENT_HEADER_LEN
    THEN Err(EVENT_HEADER_LEN - Len(buf), "", buf)
    ELSE LET header == [ flag_len |-> from_le_bytes(SubSeq(buf, 1, 4)),
                         stream_id |-> from_le_bytes(SubSeq(buf, 5, 8)) ]
             rest   == Drop(buf, EVENT_HEADER_LEN)
         IN  IF (FLAG_DATA # flags(header) /\ FLAG_AUTH # flags(header)) \/ 0 = len(header)
             THEN Ok([ header |-> header, body |-> << >>, local |-> FALSE ], rest)
             ELSE IF Len(rest) < len(header)
             THEN Err(len(header) - Len(rest), "", rest)
             ELSE Ok([ header |-> header, body |-> Take(rest, len(header)), local |-> FALSE ],
                     Drop(rest, len(header)))

none_decrypt_event(ctx, buf) ==
    IF Len(buf) < EVENT_HEADER_LEN
    THEN Err(EVENT_HEADER_LEN - Len(buf), "", buf)
    ELSE LET header == [ flag_len |-> from_le_bytes(SubSeq(buf, 1, 4)),
                         stream_id |-> from_le_bytes(SubSeq(buf, 5, 8)) ]
         IN  IF (FLAG_DATA # flags(header) /\ FLAG_AUTH # flags(header)) \/ 0 = len(header)
             THEN Ok([ header |-> header, body |-> << >>, local |-> FALSE ],
                     Drop(buf, EVENT_HEADER_LEN))
             ELSE IF Len(buf) - EVENT_HEADER_LEN < len(header)
             THEN Err(len(header) + EVENT_HEADER_LEN - Len(buf), "", buf)
             ELSE LET rest == Drop(buf, EVENT_HEADER_LEN)
                      dlen == len(header)
                  IN  Ok([ header |-> header, body |-> Take(rest, dlen), local |-> FALSE ],
                         Drop(rest, dlen))

chacha20poly1305_encrypt_event(ctx, ev, out) ==
    LET sk   == SubKey(ctx.key, ctx.encrypt_nonce)
        e1   == skip32_encode(sk, ev.header.flag_len)
        e2   == skip32_encode(sk, ev.header.stream_id)
        out1 == out \o to_le_bytes(e1) \o to_le_bytes(e2)
    IN  IF Len(ev.body) > 0
        THEN \* out.set_len(EVENT_HEADER_LEN + 16 + body.len), then seal into
             \* out[EVENT_HEADER_LEN..]: the first 8 bytes of the buffer, then
             \* the body.len + 16 sealed bytes
             Take(out1, EVENT_HEADER_LEN)
                 \o aead_seal(Take(ctx.key, 32), AeadNonce(ctx.encrypt_nonce), ev.body)
        ELSE out1

chacha20poly1305_decrypt_event(ctx, buf) ==
    IF Len(buf) < EVENT_HEADER_LEN
    THEN Err(EVENT_HEADER_LEN - Len(buf), "", buf)
    ELSE LET sk     == SubKey(ctx.key, ctx.decrypt_nonce)
             e1     == skip32_decode(sk, from_le_bytes(SubSeq(buf, 1, 4)))
             e2     == skip32_decode(sk, from_le_bytes(SubSeq(buf, 5, 8)))
             header == [ flag_len |-> e1, stream_id |-> e2 ]
         IN  IF (FLAG_DATA # flags(header) /\ FLAG_AUTH # flags(header)) \/ 0 = len(header)
             THEN Ok([ header |-> header, body |-> << >>, local |-> FALSE ],
                     Drop(buf, EVENT_HEADER_LEN))
             ELSE IF Len(buf) - EVENT_HEADER_LEN < len(header) + 16
             THEN Err(len(header) + EVENT_HEADER_LEN + 16 - Len(buf), "", buf)
             ELSE LET rest == Drop(buf, EVENT_HEADER_LEN)
                      dlen == len(header)
                      o    == aead_open(Take(ctx.key, 32), AeadNonce(ctx.decrypt_nonce),
                                        Take(rest, dlen + 16))
                  IN  IF o.ok
                      THEN Ok([ header |-> header, body |-> o.pt, local |-> FALSE ],
                              Drop(rest, dlen + 16))
                      ELSE Err(0, "Decrypt error", rest)

\* (self.encrypter)(&self, ev, out)
encrypter(ctx, ev, out) ==
    IF ctx.encrypter = "chacha20poly1305_encrypt_event"
    THEN chacha20poly1305_encrypt_event(ctx, ev, out)
    ELSE none_encrypt_event(ctx, ev, out)

\* (self.decrypter)(&self, buf)
decrypter(ctx, buf) ==
    IF ctx.decrypter = "chacha20poly1305_decrypt_event"
    THEN chacha20poly1305_decrypt_event(ctx, buf)
    ELSE none_decrypt_event(ctx, buf)

\* encrypt advancing both nonces of the context
encrypt_both(ctx, ev, out) ==
    [ ctx |-> [ctx EXCEPT !.encrypt_nonce = AddOne(ctx.encrypt_nonce),
                          !.decrypt_nonce = AddOne(ctx.decrypt_nonce)],
      out |-> encrypter(ctx, ev, out),
      overflow |-> ctx.encrypt_nonce = U64Max ]

\* CryptoContext::encrypt: the context and the buffer after the call.
\* `self.encrypt_nonce + 1` overflows at u64::MAX: the addition then panics
\* (overflow checks on) or wraps to 0 (overflow checks off); ctx is the
\* wrapped outcome and overflow says that the addition overflowed.
encrypt(ctx, ev, out) ==
    [ ctx |-> [ctx EXCEPT !.encrypt_nonce = AddOne(ctx.encrypt_nonce)],
      out |-> encrypter(ctx, ev, out),
      overflow |-> ctx.encrypt_nonce = U64Max ]

\* decrypt advancing the nonce whatever the decrypter returned
decrypt_always_advance(ctx, buf) ==
    [ ctx |-> [ctx EXCEPT !.decrypt_nonce = AddOne(ctx.decrypt_nonce)],
      r |-> decrypter(ctx, buf),
      overflow |-> ctx.decrypt_nonce = U64Max ]

\* CryptoContext::decrypt: the context after the call and the result; the
\* addition overflows as in encrypt
decrypt(ctx, buf) ==
    LET r == decrypter(ctx, buf)
    IN  [ ctx |-> IF r.ok THEN [ctx EXCEPT !.decrypt_nonce = AddOne(ctx.decrypt_nonce)]
                  ELSE ctx,
          r |-> r,
          overflow |-> r.ok /\ ctx.decrypt_nonce = U64Max ]

RECURSIVE PadKey(_)
PadKey(key) == IF Len(key) < 32 THEN PadKey(Append(key, 70)) ELSE key

\* a context whose key is the key string as given
CryptoContext_new_unpadded(method, k, nonce) ==
    [ key |-> k,
      encrypt_nonce |-> nonce,
      decrypt_nonce |-> nonce,
      encrypter |-> IF method = METHOD_CHACHA20_POLY1305
                    THEN "chacha20poly1305_encrypt_event" ELSE "none_encrypt_event",
      decrypter |-> IF method = METHOD_CHACHA20_POLY1305
                    THEN "chacha20poly1305_decrypt_event" ELSE "none_decrypt_event" ]

\* CryptoContext::new, for the two supported methods
CryptoContext_new(method, k, nonce) ==
    [ key |-> PadKey(k),
      encrypt_nonce |-> nonce,
      decrypt_nonce |-> nonce,
      encrypter |-> IF method = METHOD_CHACHA20_POLY1305
                    THEN "chacha20poly1305_encrypt_event" ELSE "none_encrypt_event",
      decrypter |-> IF method = METHOD_CHACHA20_POLY1305
                    THEN "chacha20poly1305_decrypt_event" ELSE "none_decrypt_event" ]

MethodOf(ctx) ==
    IF ctx.encrypter = "chacha20poly1305_encrypt_event"
    THEN METHOD_CHACHA20_POLY1305 ELSE METHOD_NONE

(***************************************************************************)
(* The codec under its callers: one context encrypts events into the       *)
(* output buffer `out` (as the writer and the tests of crypto.rs do), the  *)
(* transport delivers the bytes of `out` in chunks to the decode buffer    *)
(* `buf`, and decrypt is called on `buf` (as the reader does).  One bit of *)
(* a frame may be inverted on the way.                                     *)
(***************************************************************************)
VARIABLES
    ctx,        \* the CryptoContext
    out,        \* BytesMut the encrypter appends to
    buf,        \* BytesMut the decrypter reads from
    fed,        \* number of bytes of out delivered to buf so far
    sent,       \* the encrypt calls: [ev, nonce, at, size]
    recv,       \* the events decrypt has returned, in order
    last,       \* the last call: [op, ctx, buf, r]
    tampered,   \* whether a bit of the frame has been inverted
    \* the client (channel/rmux.rs)
    pc,         \* where init_rmux_client / init_client stands
    scheme,     \* conn_url.scheme()
    config,     \* config.cipher: [method, key]
    rctx,       \* the inbound context of init_client
    wctx,       \* the outbound context of init_client
    peer,       \* the peer's outbound context
    resp,       \* what the peer answered: [got, success, rand, kind]
    mux,        \* what process_rmux_session was started with: [started, rctx, wctx]
    written,    \* the events the client has written to the transport
    enc_used,   \* the nonces the client has encrypted with, in order
    dec_used,   \* the nonces the client has decrypted an event with, in order
    rc,         \* what init_client returned
    shut,       \* the transport's shutdown: "no", "done", "failed"
    ret,        \* what init_rmux_client returned
    \* the reader (read_encrypt_event, crypto.rs:48-79)
    rd          \* [pc, n, err, has_ctx, derr, at]

codec_vars == << ctx, out, buf, fed, sent, recv, last, tampered >>

client_vars == << pc, scheme, config, rctx, wctx, peer, resp, mux, written, enc_used,
                  dec_used, rc, shut, ret >>

reader_vars == << rd >>

vars == << codec_vars, client_vars, reader_vars >>

\* "key" and the key of the tests of crypto.rs
Keys == { << 107, 101, 121 >>,
          << 50, 49, 51, 50, 49, 51, 50, 49, 51, 50, 49, 51, 50, 49, 51, 49, 50, 51, 50, 49, 51,
             50, 49, 51, 50, 49, 50, 49, 50, 97, 115, 100, 102, 97, 115, 100, 97, 115, 100, 97,
             115, 49 >> }

\* the nonces a context is created with
NonceSeeds == { U64(0), U64(255) }

\* "hello,world", repeated
Text(i) == << 104, 101, 108, 108, 111, 44, 119, 111, 114, 108, 100 >>[((i - 1) % 11) + 1]

Bodies == { [i \in 1..n |-> Text(i)] : n \in 0..MaxBody }

\* the body is non-empty only when the flag is DATA or AUTH
BodyAllowedEv(ev) == Len(ev.body) > 0 => flags(ev.header) \in { FLAG_DATA, FLAG_AUTH }

\* the events handed to encrypt: AUTH on the control stream 0, SYN and DATA
\* on stream 100
Events ==
    { new_event(FLAG_AUTH, U32(0), b, FALSE) : b \in Bodies }
    \cup { new_event(f, U32(100), b, FALSE) : f \in { FLAG_SYN, FLAG_DATA }, b \in Bodies }

\* no call yet, or bytes have arrived since the last call
NoCall(op) == [ op |-> op, ctx |-> ctx, buf |-> << >>, r |-> Err(0, "", << >>) ]

\* no context yet
NoCtx == [ key |-> << >>, encrypt_nonce |-> U64(0), decrypt_nonce |-> U64(0),
           encrypter |-> "", decrypter |-> "" ]

NoResp == [ got |-> FALSE, success |-> FALSE, rand |-> U64(0), kind |-> "none" ]

NoMux == [ started |-> FALSE, rctx |-> NoCtx, wctx |-> NoCtx ]

\* read_encrypt_event has not been called: the caller has the context
NoReader == [ pc |-> "idle", n |-> 0, err |-> "", has_ctx |-> TRUE, derr |-> FALSE,
              at |-> [ fed |-> 0, recv |-> 0 ] ]

\* the client before init_rmux_client has a connection
ClientIdle ==
    /\ pc = "idle"
    /\ scheme = "rmux"
    /\ config = [ method |-> METHOD_NONE, key |-> << >> ]
    /\ rctx = NoCtx
    /\ wctx = NoCtx
    /\ peer = NoCtx
    /\ resp = NoResp
    /\ mux = NoMux
    /\ written = << >>
    /\ enc_used = << >>
    /\ dec_used = << >>
    /\ rc = "none"
    /\ shut = "no"
    /\ ret = "none"

Init ==
    /\ ClientIdle
    /\ rd = NoReader
    /\ \E method \in Methods, k \in Keys, nonce \in NonceSeeds :
           ctx = CryptoContext_new(method, k, nonce)
    /\ out = << >>
    /\ buf = << >>
    /\ fed = 0
    /\ sent = << >>
    /\ recv = << >>
    /\ last = NoCall("none")
    /\ tampered = FALSE

\* ctx.encrypt(&ev, &mut out); overflow_checks is the build's setting
Encrypt(ev, overflow_checks) ==
    /\ Len(sent) < MaxEvents
    /\ fed = 0
    /\ ~tampered
    /\ last.op \in { "none", "encrypt" }
    /\ LET e == encrypt(ctx, ev, out)
       IN  IF e.overflow /\ overflow_checks
           THEN \* panic: attempt to add with overflow
                /\ out' = e.out
                /\ last' = [ op |-> "panic", ctx |-> ctx, buf |-> out, r |-> Err(0, "", << >>) ]
                /\ UNCHANGED << ctx, sent >>
           ELSE /\ ctx' = e.ctx
                /\ out' = e.out
                /\ sent' = Append(sent, [ ev |-> ev, nonce |-> ctx.encrypt_nonce,
                                          at |-> Len(out), size |-> Len(e.out) - Len(out) ])
                /\ last' = [ op |-> "encrypt", ctx |-> ctx, buf |-> out,
                             r |-> Err(0, "", << >>) ]
    /\ UNCHANGED << buf, fed, recv, tampered >>
    /\ UNCHANGED << client_vars, reader_vars >>

\* one bit of the single frame in out is inverted before it is delivered
Tamper(i, j) ==
    /\ last.op # "panic"
    /\ Len(sent) = 1
    /\ fed = 0
    /\ ~tampered
    /\ i \in 1..Len(out)
    /\ out' = [out EXCEPT ![i] = FlipBit(out[i], j)]
    /\ tampered' = TRUE
    /\ UNCHANGED << ctx, buf, fed, sent, recv, last >>
    /\ UNCHANGED << client_vars, reader_vars >>

\* the transport delivers the next k bytes (a tampered frame arrives whole)
Feed(k) ==
    /\ last.op # "panic"
    /\ k \in 1..Len(out)
    /\ tampered => k = Len(out)
    /\ buf' = buf \o Take(out, k)
    /\ out' = Drop(out, k)
    /\ fed' = fed + k
    /\ last' = NoCall("feed")
    /\ UNCHANGED << ctx, sent, recv, tampered >>
    /\ UNCHANGED << client_vars, reader_vars >>

\* ctx.decrypt(&mut buf); overflow_checks is the build's setting
Decrypt(overflow_checks) ==
    /\ last.op # "panic"
    /\ LET d == decrypt(ctx, buf)
       IN  IF d.overflow /\ overflow_checks
           THEN \* panic: attempt to add with overflow
                /\ buf' = d.r.buf
                /\ last' = [ op |-> "panic", ctx |-> ctx, buf |-> buf, r |-> d.r ]
                /\ UNCHANGED << ctx, recv >>
           ELSE /\ ctx' = d.ctx
                /\ buf' = d.r.buf
                /\ recv' = IF d.r.ok THEN Append(recv, d.r.ev) ELSE recv
                /\ last' = [ op |-> "decrypt", ctx |-> ctx, buf |-> buf, r |-> d.r ]
    /\ UNCHANGED << out, fed, sent, tampered >>
    /\ UNCHANGED << client_vars, reader_vars >>

Next ==
    \/ \E ev \in Events, overflow_checks \in BOOLEAN : Encrypt(ev, overflow_checks)
    \/ \E i \in 1..(EVENT_HEADER_LEN + MaxBody + 16), j \in 0..7 : Tamper(i, j)
    \/ \E k \in 1..(MaxEvents * (EVENT_HEADER_LEN + MaxBody + 16)) : Feed(k)
    \/ \E overflow_checks \in BOOLEAN : Decrypt(overflow_checks)

Spec == Init /\ [][Next]_vars

\* the seeds at the end of the 32-bit and of the 64-bit range
WideSeeds == { << 0, 0, 0, 0, 255, 255, 255, 255 >>, U64Max }

\* a context created at the end of the range, as CryptoContext::new(method,
\* key, decoded.rand) creates it for a rand the peer chose (rmux.rs:50-51)
InitWide ==
    /\ ClientIdle
    /\ rd = NoReader
    /\ \E method \in Methods, k \in Keys, nonce \in WideSeeds :
           ctx = CryptoContext_new(method, k, nonce)
    /\ out = << >>
    /\ buf = << >>
    /\ fed = 0
    /\ sent = << >>
    /\ recv = << >>
    /\ last = NoCall("none")
    /\ tampered = FALSE

SpecWide == InitWide /\ [][Next]_vars

(***************************************************************************)
(* The client: init_rmux_client has its connection and runs init_client    *)
(* over it (rmux.rs:147-192); init_client does the handshake and starts    *)
(* the session driver (rmux.rs:19-72).  Each action is the code between    *)
(* two awaits.  The peer answers with a context of the same method and key *)
(* seeded at 0 and, once it has accepted, sends events under a context     *)
(* seeded at the rand it chose.                                            *)
(***************************************************************************)
Schemes == { "rmux", "ws", "wss" }

\* the rand values the peer answers with
Rands == { U64(0), U64(1), U64(42) }

\* the bytes of the method's name
MethodName(method) ==
    IF method = METHOD_NONE
    THEN << 110, 111, 110, 101 >>
    ELSE << 99, 104, 97, 99, 104, 97, 50, 48, 112, 111, 108, 121, 49, 51, 48, 53 >>

\* bincode::serialize(&AuthRequest { method }): the length as a u64,
\* little-endian, then the bytes
serialize_AuthRequest(method) ==
    to_le_bytes(U64(Len(MethodName(method)))) \o MethodName(method)

\* bincode::serialize(&AuthResponse { success, rand })
serialize_AuthResponse(success, rand) ==
    << IF success THEN 1 ELSE 0 >> \o to_le_bytes(rand)

\* bincode::deserialize::<AuthResponse>(body): [ok, success, rand]
deserialize_AuthResponse(body) ==
    IF Len(body) >= 9 /\ body[1] \in { 0, 1 }
    THEN [ ok |-> TRUE, success |-> body[1] = 1, rand |-> from_le_bytes(SubSeq(body, 2, 9)) ]
    ELSE [ ok |-> FALSE, success |-> FALSE, rand |-> U64(0) ]

\* new_auth_event(sid, &auth)
new_auth_event(sid, method) ==
    new_event(FLAG_AUTH, sid, serialize_AuthRequest(method), FALSE)

\* what the peer may answer the AUTH request with: an AUTH event carrying
\* the serialized AuthResponse ("auth"), the same body under the flag DATA
\* ("data"), an AUTH event whose body is one byte ("short"), a PING event
\* ("ping")
ResponseKinds == { "auth", "data", "short", "ping" }

response_event(kind, success, rand) ==
    CASE kind = "auth" -> new_event(FLAG_AUTH, U32(0), serialize_AuthResponse(success, rand), FALSE)
      [] kind = "data" -> new_event(FLAG_DATA, U32(0), serialize_AuthResponse(success, rand), FALSE)
      [] kind = "short" -> new_event(FLAG_AUTH, U32(0), << 1 >>, FALSE)
      [] OTHER -> new_event(FLAG_PING, U32(0), << >>, FALSE)

\* the two contexts of the handshake seeded at 1
handshake_contexts_at_one(method, key) ==
    [ rctx |-> CryptoContext_new(method, key, U64(1)),
      wctx |-> CryptoContext_new(method, key, U64(1)) ]

\* the two contexts init_client does the handshake with (rmux.rs:37-38)
handshake_contexts(method, key) ==
    [ rctx |-> CryptoContext_new(method, key, U64(0)),
      wctx |-> CryptoContext_new(method, key, U64(0)) ]

\* the two new contexts seeded like the handshake's, at 0
reseed_zero(method, key, decoded) ==
    [ rctx |-> CryptoContext_new(method, key, U64(0)),
      wctx |-> CryptoContext_new(method, key, U64(0)) ]

\* the two contexts init_client hands to the session after an accepted
\* handshake (rmux.rs:50-51)
reseed(method, key, decoded) ==
    [ rctx |-> CryptoContext_new(method, key, decoded.rand),
      wctx |-> CryptoContext_new(method, key, decoded.rand) ]

\* what init_rmux_client returns after the shutdown (rmux.rs:152-155,
\* 167-170, 188-191)
after_shutdown(sch, result, shutdown_ok) ==
    IF sch = "rmux" THEN result
    ELSE IF ~shutdown_ok THEN "Err(shutdown)"
    ELSE result

\* the events of a session: DATA on stream 100
SessionEvents == { new_event(FLAG_DATA, U32(100), b, FALSE) : b \in Bodies }

CodecIdle ==
    /\ rd = NoReader
    /\ ctx = NoCtx
    /\ out = << >>
    /\ buf = << >>
    /\ fed = 0
    /\ sent = << >>
    /\ recv = << >>
    /\ last = NoCall("none")
    /\ tampered = FALSE

InitClient ==
    /\ CodecIdle
    /\ pc = "init_client"
    /\ scheme \in Schemes
    /\ \E method \in Methods, k \in Keys : config = [ method |-> method, key |-> k ]
    /\ rctx = NoCtx
    /\ wctx = NoCtx
    /\ peer = NoCtx
    /\ resp = NoResp
    /\ mux = NoMux
    /\ written = << >>
    /\ enc_used = << >>
    /\ dec_used = << >>
    /\ rc = "none"
    /\ shut = "no"
    /\ ret = "none"

\* init_client to its first await: the two contexts at nonce 0, and the
\* AUTH request encrypted and written (rmux.rs:29-39)
InitClientWrite(io_ok) ==
    /\ pc = "init_client"
    /\ LET ev == new_auth_event(U32(0), config.method)
           hs == handshake_contexts(config.method, config.key)
           r0 == hs.rctx
           w0 == hs.wctx
           e  == encrypt(w0, ev, << >>)
       IN  /\ rctx' = r0
           /\ wctx' = e.ctx
           /\ peer' = CryptoContext_new(config.method, config.key, U64(0))
           /\ enc_used' = Append(enc_used, w0.encrypt_nonce)
           /\ written' = IF io_ok THEN Append(written, [ ev |-> ev, frame |-> e.out ])
                         ELSE written
    /\ pc' = IF io_ok THEN "read_response" ELSE "shutdown"
    /\ rc' = IF io_ok THEN rc ELSE "Err(write)"
    /\ UNCHANGED << scheme, config, resp, mux, dec_used, shut, ret >>
    /\ UNCHANGED << codec_vars, reader_vars >>

\* the read of the response fails (rmux.rs:41-42)
InitClientReadFails ==
    /\ pc = "read_response"
    /\ pc' = "shutdown"
    /\ rc' = "Err(read)"
    /\ UNCHANGED << scheme, config, rctx, wctx, peer, resp, mux, written, enc_used,
                    dec_used, shut, ret >>
    /\ UNCHANGED << codec_vars, reader_vars >>

\* the peer's answer arrives: it is decrypted and deserialized, and the
\* client fails, panics in unwrap(), or reseeds and starts the session
\* driver (rmux.rs:41-59)
InitClientRead(kind, success, rand) ==
    /\ pc = "read_response"
    /\ kind \in { "short", "ping" } => (~success /\ rand = U64(0))
    /\ LET rev == response_event(kind, success, rand)
           pe  == encrypt(peer, rev, << >>)
           d   == decrypt(rctx, pe.out)
           decoded == deserialize_AuthResponse(d.r.ev.body)
           fresh == reseed(config.method, config.key, decoded)
       IN  /\ resp' = [ got |-> kind \in { "auth", "data" }, success |-> success,
                        rand |-> rand, kind |-> kind ]
           /\ dec_used' = IF d.r.ok THEN Append(dec_used, rctx.decrypt_nonce) ELSE dec_used
           /\ IF ~d.r.ok
              THEN /\ rc' = "Err(read)"
                   /\ pc' = "shutdown"
                   /\ rctx' = d.ctx
                   /\ peer' = pe.ctx
                   /\ UNCHANGED << wctx, mux >>
              ELSE IF ~decoded.ok
              THEN /\ rc' = "panic"
                   /\ pc' = "panicked"
                   /\ rctx' = d.ctx
                   /\ peer' = pe.ctx
                   /\ UNCHANGED << wctx, mux >>
              ELSE IF ~decoded.success
              THEN /\ rc' = "ConnectionRefused"
                   /\ pc' = "shutdown"
                   /\ rctx' = d.ctx
                   /\ peer' = pe.ctx
                   /\ UNCHANGED << wctx, mux >>
              ELSE /\ rctx' = fresh.rctx
                   /\ wctx' = fresh.wctx
                   /\ mux' = [ started |-> TRUE, rctx |-> fresh.rctx, wctx |-> fresh.wctx ]
                   /\ peer' = CryptoContext_new(config.method, config.key, rand)
                   /\ pc' = "session"
                   /\ rc' = rc
    /\ UNCHANGED << scheme, config, written, enc_used, shut, ret >>
    /\ UNCHANGED << codec_vars, reader_vars >>

\* the session driver's writer encrypts an outbound event with wctx
SessionWrite(ev) ==
    /\ pc = "session"
    /\ Len(enc_used) < 1 + MaxSessionEvents
    /\ LET e == encrypt(wctx, ev, << >>)
       IN  /\ wctx' = e.ctx
           /\ written' = Append(written, [ ev |-> ev, frame |-> e.out ])
    /\ enc_used' = Append(enc_used, wctx.encrypt_nonce)
    /\ UNCHANGED << pc, scheme, config, rctx, peer, resp, mux, dec_used, rc, shut, ret >>
    /\ UNCHANGED << codec_vars, reader_vars >>

\* the session driver's reader decrypts an event of the peer with rctx
SessionRead(ev) ==
    /\ pc = "session"
    /\ Len(dec_used) < 1 + MaxSessionEvents
    /\ LET pe == encrypt(peer, ev, << >>)
           d  == decrypt(rctx, pe.out)
       IN  /\ peer' = pe.ctx
           /\ rctx' = d.ctx
           /\ dec_used' = IF d.r.ok THEN Append(dec_used, rctx.decrypt_nonce) ELSE dec_used
           /\ pc' = IF d.r.ok THEN pc ELSE "shutdown"
           /\ rc' = IF d.r.ok THEN rc ELSE "Err(session)"
    /\ UNCHANGED << scheme, config, wctx, resp, mux, written, enc_used, shut, ret >>
    /\ UNCHANGED << codec_vars, reader_vars >>

\* process_rmux_session returns (rmux.rs:59-71)
SessionEnd(ok) ==
    /\ pc = "session"
    /\ pc' = "shutdown"
    /\ rc' = IF ok THEN "Ok" ELSE "Err(session)"
    /\ UNCHANGED << scheme, config, rctx, wctx, peer, resp, mux, written, enc_used,
                    dec_used, shut, ret >>
    /\ UNCHANGED << codec_vars, reader_vars >>

\* init_rmux_client after init_client has returned: the shutdown, and the
\* return (rmux.rs:151-155, 166-170, 187-191, 199)
Shutdown(shutdown_ok) ==
    /\ pc = "shutdown"
    /\ shut' = IF shutdown_ok THEN "done" ELSE "failed"
    /\ ret' = after_shutdown(scheme, rc, shutdown_ok)
    /\ pc' = "returned"
    /\ UNCHANGED << scheme, config, rctx, wctx, peer, resp, mux, written, enc_used,
                    dec_used, rc >>
    /\ UNCHANGED << codec_vars, reader_vars >>

NextClient ==
    \/ \E io_ok \in BOOLEAN : InitClientWrite(io_ok)
    \/ InitClientReadFails
    \/ \E kind \in ResponseKinds, success \in BOOLEAN, rand \in Rands :
           InitClientRead(kind, success, rand)
    \/ \E ev \in SessionEvents : SessionWrite(ev)
    \/ \E ev \in SessionEvents : SessionRead(ev)
    \/ \E ok \in BOOLEAN : SessionEnd(ok)
    \/ \E shutdown_ok \in BOOLEAN : Shutdown(shutdown_ok)

SpecClient == InitClient /\ [][NextClient]_vars

(***************************************************************************)
(* CryptoContext::new on key strings of every length from the empty string *)
(* to beyond 32 bytes, and the first use of the key by encrypt.            *)
(***************************************************************************)
\* the test key of crypto.rs, repeated
KeyText(i) ==
    << 50, 49, 51, 50, 49, 51, 50, 49, 51, 50, 49, 51, 50, 49, 51, 49, 50, 51, 50, 49, 51,
       50, 49, 51, 50, 49, 50, 49, 50, 97, 115, 100, 102, 97, 115, 100, 97, 115, 100, 97,
       115, 49 >>[((i - 1) % 42) + 1]

KeyStrings == { [i \in 1..n |-> KeyText(i)] : n \in 0..MaxKeyLen }

\* the arguments of CryptoContext::new are chosen; no context yet
InitKey ==
    /\ \E method \in Methods, k \in KeyStrings : config = [ method |-> method, key |-> k ]
    /\ pc = "idle"
    /\ scheme = "rmux"
    /\ rctx = NoCtx
    /\ wctx = NoCtx
    /\ peer = NoCtx
    /\ resp = NoResp
    /\ mux = NoMux
    /\ written = << >>
    /\ enc_used = << >>
    /\ dec_used = << >>
    /\ rc = "none"
    /\ shut = "no"
    /\ ret = "none"
    /\ CodecIdle

\* CryptoContext::new(method, k, nonce)
NewContext(nonce) ==
    /\ ctx = NoCtx
    /\ ctx' = CryptoContext_new(config.method, config.key, nonce)
    /\ last' = [ op |-> "new", ctx |-> ctx, buf |-> << >>, r |-> Err(0, "", << >>) ]
    /\ UNCHANGED << out, buf, fed, sent, recv, tampered >>
    /\ UNCHANGED << client_vars, reader_vars >>

\* the first encrypt call of the new context: the encrypter takes the first
\* 2 and the first 32 bytes of the key (crypto.rs:134, 142)
FirstEncrypt(ev) ==
    /\ ctx # NoCtx
    /\ last.op = "new"
    /\ LET e == encrypt(ctx, ev, out)
       IN  /\ ctx' = e.ctx
           /\ out' = e.out
           /\ sent' = Append(sent, [ ev |-> ev, nonce |-> ctx.encrypt_nonce,
                                     at |-> Len(out), size |-> Len(e.out) - Len(out) ])
           /\ last' = [ op |-> "encrypt", ctx |-> ctx, buf |-> out, r |-> Err(0, "", << >>) ]
    /\ UNCHANGED << buf, fed, recv, tampered >>
    /\ UNCHANGED << client_vars, reader_vars >>

NextKey ==
    \/ \E nonce \in NonceSeeds : NewContext(nonce)
    \/ \E ev \in SessionEvents : FirstEncrypt(ev)

SpecKey == InitKey /\ [][NextKey]_vars

(***************************************************************************)
(* The reader: a writer encrypts each event into a buffer of its own and   *)
(* writes the frame to the transport (`out` is what the transport holds,   *)
(* `fed` the number of bytes read from it), and the caller of              *)
(* read_encrypt_event passes its context in and gets it back with the      *)
(* event (crypto.rs:48-79).  One bit of the first frame may be inverted on *)
(* the way.                                                                *)
(***************************************************************************)
\* the key and the seeds of the reader's context
ReaderKeys == { << 107, 101, 121 >> }

\* the bits of a byte the transport may invert: the lowest and the highest
TamperBits == { 0, 7 }

\* a failed decrypt in the second stage hands the context back
on_decrypt_lenient(stage, r) ==
    IF r.ok \/ stage = 2 THEN [ pc |-> "idle", err |-> "", has_ctx |-> TRUE ]
    ELSE IF r.reason = "" THEN [ pc |-> "need", err |-> "", has_ctx |-> FALSE ]
    ELSE [ pc |-> "failed", err |-> "PermissionDenied", has_ctx |-> FALSE ]

\* what read_encrypt_event does with the result of its first (stage 1,
\* crypto.rs:56-64) and second (stage 2, crypto.rs:70-73) decrypt call:
\* where it stands, the error it completes with, whether the caller has the
\* context
on_decrypt(stage, r) ==
    IF r.ok THEN [ pc |-> "idle", err |-> "", has_ctx |-> TRUE ]
    ELSE IF stage = 1 /\ r.reason = "" THEN [ pc |-> "need", err |-> "", has_ctx |-> FALSE ]
    ELSE [ pc |-> "failed",
           err |-> IF stage = 1 THEN "PermissionDenied" ELSE "InvalidInput",
           has_ctx |-> FALSE ]

InitReader ==
    /\ ClientIdle
    /\ rd = NoReader
    /\ \E method \in Methods, k \in ReaderKeys, nonce \in NonceSeeds :
           ctx = CryptoContext_new(method, k, nonce)
    /\ out = << >>
    /\ buf = << >>
    /\ fed = 0
    /\ sent = << >>
    /\ recv = << >>
    /\ last = NoCall("none")
    /\ tampered = FALSE

\* the writer encrypts ev into an empty buffer and writes the frame
Write(ev) ==
    /\ Len(sent) < MaxEvents
    /\ fed = 0
    /\ ~tampered
    /\ rd = NoReader
    /\ LET e == encrypt(ctx, ev, << >>)
       IN  /\ ctx' = e.ctx
           /\ out' = out \o e.out
           /\ sent' = Append(sent, [ ev |-> ev, nonce |-> ctx.encrypt_nonce,
                                     at |-> Len(out), size |-> Len(e.out) ])
           /\ last' = [ op |-> "encrypt", ctx |-> ctx, buf |-> << >>, r |-> Err(0, "", << >>) ]
    /\ UNCHANGED << buf, fed, recv, tampered >>
    /\ UNCHANGED << client_vars, reader_vars >>

\* one bit of the first frame is inverted on the transport
TamperFrame(i, j) ==
    /\ Len(sent) >= 1
    /\ fed = 0
    /\ ~tampered
    /\ rd = NoReader
    /\ i \in 1..sent[1].size
    /\ out' = [out EXCEPT ![i] = FlipBit(out[i], j)]
    /\ tampered' = TRUE
    /\ UNCHANGED << ctx, buf, fed, sent, recv, last >>
    /\ UNCHANGED << client_vars, reader_vars >>

\* the reader state after a decrypt call of the given stage
AfterDecrypt(stage, d) ==
    LET o == on_decrypt(stage, d.r)
    IN  [ pc |-> o.pc, n |-> IF o.pc = "need" THEN d.r.n ELSE 0, err |-> o.err,
          has_ctx |-> o.has_ctx,
          derr |-> rd.derr \/ IsDecryptError(d.r),
          at |-> IF ~rd.derr /\ IsDecryptError(d.r)
                 THEN [ fed |-> fed', recv |-> Len(recv') ] ELSE rd.at ]

\* read_encrypt_event(ctx, r) to the end of its first stage: the 8 header
\* bytes are read into a new buffer and decrypt is called (crypto.rs:52-64)
ReadEncryptEvent ==
    /\ rd.pc = "idle"
    /\ rd.has_ctx
    /\ Len(out) >= EVENT_HEADER_LEN
    /\ LET data == Take(out, EVENT_HEADER_LEN)
           d    == decrypt(ctx, data)
       IN  /\ out' = Drop(out, EVENT_HEADER_LEN)
           /\ fed' = fed + EVENT_HEADER_LEN
           /\ ctx' = d.ctx
           /\ buf' = d.r.buf
           /\ recv' = IF d.r.ok THEN Append(recv, d.r.ev) ELSE recv
           /\ last' = [ op |-> "decrypt", ctx |-> ctx, buf |-> data, r |-> d.r ]
           /\ rd' = AfterDecrypt(1, d)
    /\ UNCHANGED << sent, tampered >>
    /\ UNCHANGED client_vars

\* the second stage: exactly n more bytes are read and appended, and
\* decrypt is called again (crypto.rs:64-74)
ReadEncryptEventBody ==
    /\ rd.pc = "need"
    /\ Len(out) >= rd.n
    /\ LET body == buf \o Take(out, rd.n)
           d    == decrypt(ctx, body)
       IN  /\ out' = Drop(out, rd.n)
           /\ fed' = fed + rd.n
           /\ ctx' = d.ctx
           /\ buf' = d.r.buf
           /\ recv' = IF d.r.ok THEN Append(recv, d.r.ev) ELSE recv
           /\ last' = [ op |-> "decrypt", ctx |-> ctx, buf |-> body, r |-> d.r ]
           /\ rd' = AfterDecrypt(2, d)
    /\ UNCHANGED << sent, tampered >>
    /\ UNCHANGED client_vars

\* read_exact fails: the transport ends before the bytes asked for
\* (crypto.rs:53, 65)
ReadExactFails ==
    /\ \/ rd.pc = "idle" /\ rd.has_ctx /\ Len(out) < EVENT_HEADER_LEN
       \/ rd.pc = "need" /\ Len(out) < rd.n
    /\ sent # << >>
    /\ rd' = [rd EXCEPT !.pc = "failed", !.err = "UnexpectedEof", !.has_ctx = FALSE]
    /\ UNCHANGED codec_vars
    /\ UNCHANGED client_vars

NextReader ==
    \/ \E ev \in Events : Write(ev)
    \/ \E i \in 1..(EVENT_HEADER_LEN + MaxBody + 16), j \in TamperBits : TamperFrame(i, j)
    \/ ReadEncryptEvent
    \/ ReadEncryptEventBody
    \/ ReadExactFails

SpecReader == InitReader /\ [][NextReader]_vars

(***************************************************************************)
(* Vocabulary of the claims.                                               *)
(***************************************************************************)
\* b is a + 1 as numbers (for counters whose low 24 bits do not overflow)
Low24(w) == w[6] * 65536 + w[7] * 256 + w[8]

IsNext(a, b) == SubSeq(a, 1, 5) = SubSeq(b, 1, 5) /\ Low24(b) = Low24(a) + 1

CarriesBody(ev) == flags(ev.header) \in { FLAG_DATA, FLAG_AUTH }

BodyAllowed(ev) == BodyAllowedEv(ev)

SameEvent(a, b) ==
    /\ a.header.flag_len = b.header.flag_len
    /\ a.header.stream_id = b.header.stream_id
    /\ a.body = b.body

\* one event was encrypted into the empty buffer and nothing was inverted
OneFrame == Len(sent) = 1 /\ ~tampered

\* the last call was a decrypt call on a buffer holding exactly the one frame
DecryptedWholeFrame ==
    /\ Len(sent) = 1
    /\ last.op = "decrypt"
    /\ Len(last.buf) = sent[1].size
    /\ fed = sent[1].size

\* C1: round trip.  An event whose body is non-empty only for DATA / AUTH,
\* encrypted into an empty buffer at nonce n and decrypted from that buffer
\* at nonce n, comes back with the same flag_len, stream_id and body, the
\* buffer is left empty and both nonces are n + 1.
C1_RoundTrip ==
    (OneFrame /\ BodyAllowed(sent[1].ev) /\ DecryptedWholeFrame)
        => /\ last.ctx.decrypt_nonce = sent[1].nonce
           /\ last.r.ok
           /\ SameEvent(last.r.ev, sent[1].ev)
           /\ buf = << >>
           /\ IsNext(sent[1].nonce, ctx.encrypt_nonce)
           /\ IsNext(sent[1].nonce, ctx.decrypt_nonce)

C1_Witness ==
    /\ OneFrame /\ DecryptedWholeFrame
    /\ MethodOf(ctx) = METHOD_CHACHA20_POLY1305
    /\ flags(sent[1].ev.header) = FLAG_DATA
    /\ Len(sent[1].ev.body) = MaxBody
    /\ last.r.ok /\ last.r.ev.body = sent[1].ev.body
    /\ buf = << >>

\* C3: nonce discipline per call.  A decrypt call that returns an event
\* advances decrypt_nonce by one; a decrypt call that asks for more input or
\* returns the decrypt error leaves it unchanged; an encrypt call advances
\* encrypt_nonce by one.
C3_NonceDiscipline ==
    /\ (last.op = "decrypt" /\ last.r.ok)
           => IsNext(last.ctx.decrypt_nonce, ctx.decrypt_nonce)
    /\ (last.op = "decrypt" /\ ~last.r.ok)
           => ctx.decrypt_nonce = last.ctx.decrypt_nonce
    /\ last.op = "encrypt"
           => IsNext(last.ctx.encrypt_nonce, ctx.encrypt_nonce)

\* the tag's last byte was inverted and decrypt returned the decrypt error
C3_Witness ==
    /\ tampered
    /\ last.op = "decrypt"
    /\ IsDecryptError(last.r)
    /\ ctx.decrypt_nonce = last.ctx.decrypt_nonce
    /\ Len(recv) = 0

\* C6: tamper detection.  For chacha20poly1305 and the frame of a DATA or
\* AUTH event with a non-empty body, decrypt of the frame with any one bit
\* inverted returns the decrypt error.
C6_TamperDetected ==
    ( /\ tampered
      /\ DecryptedWholeFrame
      /\ MethodOf(ctx) = METHOD_CHACHA20_POLY1305
      /\ CarriesBody(sent[1].ev)
      /\ Len(sent[1].ev.body) > 0 )
        => IsDecryptError(last.r)

\* C7: concatenation.  With events e1..ek (bodies only on DATA / AUTH)
\* encrypted in order into one buffer, the decrypt calls return e1..ek in
\* that order, and once all bytes have arrived a decrypt call fails to
\* return an event only when all k have been returned and the buffer is
\* empty.
C7_Concatenation ==
    (~tampered /\ \A i \in 1..Len(sent) : BodyAllowed(sent[i].ev))
        => /\ Len(recv) <= Len(sent)
           /\ \A i \in 1..Len(recv) : SameEvent(recv[i], sent[i].ev)
           /\ (out = << >> /\ last.op = "decrypt" /\ ~last.r.ok)
                  => (Len(recv) = Len(sent) /\ buf = << >>)

\* C8: fragmented decrypt.  While bytes of the one DATA frame are still to
\* arrive, a decrypt call asks for more input, consumes nothing and leaves
\* the nonce; the call on the complete frame returns the event with the
\* original body and leaves the buffer empty.
C8_Fragmented ==
    ( /\ OneFrame
      /\ flags(sent[1].ev.header) = FLAG_DATA
      /\ last.op = "decrypt" )
        => /\ fed < sent[1].size
               => /\ IsNeed(last.r)
                  /\ last.r.n >= 1
                  /\ buf = last.buf
                  /\ ctx.decrypt_nonce = last.ctx.decrypt_nonce
                  /\ recv = << >>
           /\ (fed = sent[1].size /\ Len(last.buf) = sent[1].size)
               => /\ last.r.ok
                  /\ last.r.ev.body = sent[1].ev.body
                  /\ recv = << last.r.ev >>
                  /\ buf = << >>

\* the header and a part of the sealed body have arrived, and decrypt asked
\* for the rest
C8_Witness ==
    /\ OneFrame
    /\ flags(sent[1].ev.header) = FLAG_DATA
    /\ Len(sent[1].ev.body) > 0
    /\ last.op = "decrypt"
    /\ IsNeed(last.r)
    /\ Len(buf) > EVENT_HEADER_LEN
    /\ out # << >>

\* C9: body emission rule.  For an event whose flag is neither DATA nor
\* AUTH the encoder emits the 8-byte header only.
C9_HeaderOnly ==
    (Len(sent) = 1 /\ ~CarriesBody(sent[1].ev))
        => sent[1].size = EVENT_HEADER_LEN

\* the frame length of the claim
FrameSize(method, ev) ==
    IF method = METHOD_CHACHA20_POLY1305
    THEN IF Len(ev.body) > 0 THEN 8 + Len(ev.body) + 16 ELSE 8
    ELSE 8 + Len(ev.body)

\* C10: frame size.  Encrypting into the empty buffer yields 8 + body.len
\* + 16 bytes (chacha20poly1305, body non-empty), 8 bytes (chacha20poly1305,
\* body empty), 8 + body.len bytes (none), and decrypt of the complete
\* frame consumes exactly that many bytes.
C10_FrameSize ==
    /\ Len(sent) >= 1 => sent[1].size = FrameSize(MethodOf(ctx), sent[1].ev)
    /\ (OneFrame /\ DecryptedWholeFrame)
           => Len(last.buf) - Len(buf) = FrameSize(MethodOf(ctx), sent[1].ev)

Distinct(seq) == \A i, j \in 1..Len(seq) : i # j => seq[i] # seq[j]

\* C2: nonces never repeat inside one client session.  The nonces the
\* client encrypts with (the AUTH request, then the session's outbound
\* events) are pairwise distinct, and so are the nonces it decrypts with
\* (the response, then the session's inbound events), whatever rand is.
C2_NoncesDistinct == Distinct(enc_used) /\ Distinct(dec_used)

\* C4: handshake accept.  The session driver is started only after a
\* response with success = true has been received, and with two fresh
\* contexts of the configured method and key whose nonces all equal the
\* response's rand; the first outbound event of the session is encrypted
\* with nonce rand and the first inbound event decrypted with nonce rand.
C4_HandshakeAccept ==
    /\ mux.started
           => /\ resp.got /\ resp.success
              /\ \A c \in { mux.rctx, mux.wctx } :
                    /\ c.encrypt_nonce = resp.rand
                    /\ c.decrypt_nonce = resp.rand
                    /\ c.key = PadKey(config.key)
                    /\ MethodOf(c) = config.method
              /\ Len(enc_used) >= 2 => enc_used[2] = resp.rand
              /\ Len(dec_used) >= 2 => dec_used[2] = resp.rand
    /\ pc = "session" => mux.started
    /\ (resp.got /\ resp.success) => mux.started

\* the session has written and read its first event after rand = 42
C4_Witness ==
    /\ mux.started
    /\ resp.rand = U64(42)
    /\ Len(enc_used) >= 2
    /\ Len(dec_used) >= 2
    /\ wctx.encrypt_nonce = U64(43)

\* C5: handshake reject.  After a response with success = false the client
\* returns ConnectionRefused, the transport has been shut down, the session
\* driver was never started and nothing but the AUTH request was written.
C5_HandshakeReject ==
    (pc = "returned" /\ resp.got /\ ~resp.success)
        => /\ ret = "ConnectionRefused"
           /\ shut # "no"
           /\ ~mux.started
           /\ Len(written) = 1

\* the error values init_client and init_rmux_client return
IsErr(x) == x \in { "Err(write)", "Err(read)", "ConnectionRefused", "Err(session)",
                    "Err(shutdown)" }

\* init_client is past the handshake
HandshakeOver == pc \in { "session", "shutdown", "returned", "panicked" }

\* C11: every failed handshake is an error value.  Once the handshake is
\* over and the peer has not answered with an AUTH event carrying a
\* well-formed AuthResponse with success = true (the write failed, the read
\* failed, the answer was another event or a body that does not
\* deserialize, or success was false), init_client has returned an Err and
\* the session driver was not started.
C11_FailedHandshakeIsErr ==
    (HandshakeOver /\ ~(resp.kind = "auth" /\ resp.success))
        => (IsErr(rc) /\ ~mux.started)

\* C12: decrypt failure is terminal for the reader.  Once a decrypt call
\* inside read_encrypt_event has returned the decrypt error,
\* read_encrypt_event has completed with an I/O error, the caller does not
\* have the context, and since that call no event has been delivered and no
\* byte has been read from the transport.
C12_DecryptFailureTerminal ==
    rd.derr
        => /\ rd.pc = "failed"
           /\ rd.err \in { "PermissionDenied", "InvalidInput" }
           /\ ~rd.has_ctx
           /\ Len(recv) = rd.at.recv
           /\ fed = rd.at.fed

\* the first of two frames had a bit of its sealed body inverted: the reader
\* failed on it with the second frame still on the transport
C12_Witness ==
    /\ rd.derr
    /\ rd.pc = "failed"
    /\ Len(sent) = 2
    /\ recv = << >>
    /\ Len(out) = sent[2].size
    /\ ctx.decrypt_nonce = sent[1].nonce

\* C13: handshake ordering.  The first event init_client writes is an AUTH
\* event on stream 0 whose body carries the configured method's name,
\* encrypted by the outbound context at nonce 0; while the answer is awaited
\* nothing else has been written or read and the inbound context's decrypt
\* nonce is still 0 although the outbound context has encrypted; the first
\* event read is decrypted at nonce 0; and until the answer has been
\* evaluated at most that one event is written and none is read.
C13_HandshakeOrdering ==
    /\ Len(written) >= 1
           => /\ flags(written[1].ev.header) = FLAG_AUTH
              /\ written[1].ev.header.stream_id = U32(0)
              /\ Drop(written[1].ev.body, 8) = MethodName(config.method)
              /\ enc_used[1] = U64(0)
              /\ LET d == decrypt(CryptoContext_new(config.method, config.key, U64(0)),
                                  written[1].frame)
                 IN  d.r.ok /\ SameEvent(d.r.ev, written[1].ev) /\ d.r.buf = << >>
    /\ pc = "read_response"
           => /\ Len(written) = 1
              /\ dec_used = << >>
              /\ rctx.decrypt_nonce = U64(0)
              /\ rctx.encrypt_nonce = U64(0)
              /\ wctx.encrypt_nonce = U64(1)
              /\ wctx.decrypt_nonce = U64(0)
    /\ Len(dec_used) >= 1 => dec_used[1] = U64(0)
    /\ ~HandshakeOver => (Len(written) <= 1 /\ dec_used = << >>)

\* the request went out under chacha20poly1305 and the answer has been
\* decrypted and accepted
C13_Witness ==
    /\ config.method = METHOD_CHACHA20_POLY1305
    /\ Len(written) = 1
    /\ dec_used = << U64(0) >>
    /\ enc_used = << U64(0) >>
    /\ pc = "session"

\* the amount the claim gives for a buffer of `have` bytes that holds less
\* than the frame of an event with the given header
NeedAmount(method, header, have) ==
    IF have < 8 THEN 8 - have
    ELSE IF method = METHOD_CHACHA20_POLY1305 THEN len(header) + 8 + 16 - have
    ELSE len(header) + 8 - have

\* the frame the reader is at: the one after those it has returned
FrameAt == sent[Len(recv) + 1]

\* C14: exact NEED amounts.  A decrypt call that asks for more input asks
\* for NeedAmount bytes, at least 1; the decrypt call after exactly that
\* many more bytes does not ask again for the same stage; and every time
\* read_encrypt_event has returned an event it has read exactly the frames
\* of the events returned so far from the transport.
C14_ExactNeed ==
    ~tampered
        => /\ (last.op = "decrypt" /\ IsNeed(last.r) /\ Len(recv) < Len(sent))
                  => /\ last.r.n = NeedAmount(MethodOf(ctx), FrameAt.ev.header, Len(last.buf))
                     /\ last.r.n >= 1
                     /\ Len(out) >= last.r.n
                            => LET r2 == decrypter(ctx, last.buf \o Take(out, last.r.n))
                               IN  r2.ok \/ (IsNeed(r2) /\ Len(last.buf) < 8)
           /\ (rd.pc = "idle" /\ last.op = "decrypt" /\ last.r.ok)
                  => /\ Len(recv) <= Len(sent)
                     /\ fed = sent[Len(recv)].at + sent[Len(recv)].size

\* the counter w advanced k times
RECURSIVE Advanced(_, _)
Advanced(w, k) == IF k = 0 THEN w ELSE Advanced(AddOne(w), k - 1)

\* C15: direction independence.  An encrypt call leaves decrypt_nonce, the
\* key and the method as they were, and a decrypt call leaves encrypt_nonce,
\* the key and the method as they were, whatever it returned; so over the
\* context's life decrypt_nonce is its seed advanced once per event
\* decrypted, however many events were encrypted, and encrypt_nonce its seed
\* advanced once per encrypt call, however many decrypt calls were made.
C15_DirectionIndependence ==
    /\ last.op = "encrypt"
           => /\ ctx.decrypt_nonce = last.ctx.decrypt_nonce
              /\ ctx.key = last.ctx.key
              /\ MethodOf(ctx) = MethodOf(last.ctx)
    /\ last.op = "decrypt"
           => /\ ctx.encrypt_nonce = last.ctx.encrypt_nonce
              /\ ctx.key = last.ctx.key
              /\ MethodOf(ctx) = MethodOf(last.ctx)
    /\ Len(sent) >= 1
           => /\ ctx.decrypt_nonce = Advanced(sent[1].nonce, Len(recv))
              /\ ctx.encrypt_nonce = Advanced(sent[1].nonce, Len(sent))

\* two events were encrypted, one has been decrypted, and the last decrypt
\* call did not return an event
C15_Witness ==
    /\ Len(sent) = 2
    /\ Len(recv) = 1
    /\ last.op = "decrypt"
    /\ ~last.r.ok
    /\ ctx.encrypt_nonce # ctx.decrypt_nonce

\* C16: transport shutdown on every exit.  When init_rmux_client has
\* returned after running init_client, the shutdown of the transport has
\* been called, whatever init_client returned and whatever the scheme; and
\* an error returned by init_client is the error init_rmux_client returns.
C16_ShutdownOnEveryExit ==
    pc = "returned"
        => /\ shut # "no"
           /\ IsErr(rc) => ret = rc

\* a < b as 64-bit numbers
RECURSIVE Less(_, _)
Less(a, b) ==
    IF a = << >> THEN FALSE
    ELSE IF Head(a) # Head(b) THEN Head(a) < Head(b)
    ELSE Less(Tail(a), Tail(b))

\* b is a + 1 as 64-bit numbers
Succ64(a, b) == Less(a, b) /\ b = AddOne(a)

\* C17: nonce monotonicity over the whole 64-bit range.  For a context
\* created with any seed, an encrypt call and a decrypt call that returns an
\* event do not abort and leave their nonce greater by exactly one than it
\* was.
C17_NonceMonotonic ==
    /\ last.op # "panic"
    /\ last.op = "encrypt" => Succ64(last.ctx.encrypt_nonce, ctx.encrypt_nonce)
    /\ (last.op = "decrypt" /\ last.r.ok) => Succ64(last.ctx.decrypt_nonce, ctx.decrypt_nonce)

\* C18: encrypt appends.  An encrypt call on a buffer that held k bytes
\* leaves those k bytes as they were and the buffer k + (frame length of the
\* event) bytes long, the bytes after position k being the event's frame.
C18_EncryptAppends ==
    (last.op = "encrypt" /\ ~tampered)
        => LET k  == Len(last.buf)
               ev == sent[Len(sent)].ev
           IN  /\ Len(out) = k + FrameSize(MethodOf(ctx), ev)
               /\ Take(out, k) = last.buf
               /\ Drop(out, k) = encrypter(last.ctx, ev, << >>)

\* the key string k followed by as many 'F' as are needed to reach 32 bytes
Padded(k) == k \o [i \in 1..(IF Len(k) < 32 THEN 32 - Len(k) ELSE 0) |-> 70]

\* C19: key padding.  For both methods and every key string k, the empty
\* one included, the key of a context created by CryptoContext::new is k
\* followed by 'F's up to 32 bytes: exactly 32 bytes when k is shorter than
\* 32 and never less than 32, so that its first 2 and its first 32 bytes
\* exist; and encrypt leaves the key as it is.
C19_KeyPadding ==
    ctx # NoCtx
        => /\ ctx.key = Padded(config.key)
           /\ Len(config.key) < 32 => Len(ctx.key) = 32
           /\ Len(ctx.key) >= 32
           /\ Take(ctx.key, Len(config.key)) = config.key
           /\ MethodOf(ctx) = config.method

\* a context created from the empty key string has sealed an event
C19_Witness ==
    /\ config.key = << >>
    /\ config.method = METHOD_CHACHA20_POLY1305
    /\ ctx.key = [i \in 1..32 |-> 70]
    /\ Len(sent) = 1
    /\ Len(out) = 8 + MaxBody + 16

====
